---- MODULE Spec2Model ----
(***************************************************************************)
(* A model of pycaiso.oasis (src/pycaiso/oasis.py): the Oasis base class   *)
(* (date-range validator, HTTP GET wrapper, UTC request-timestamp          *)
(* formatter, zip/CSV-to-table parser) and the query operations of Node,   *)
(* Atlas and SystemDemand built on it.                                     *)
(*                                                                         *)
(* A naive datetime is an integer: minutes of wall-clock time since        *)
(* 2020-01-01 00:00.  One call of a public operation runs from "idle" to   *)
(* "done"; while its HTTP GET is in flight the call is "awaiting" the      *)
(* server's answer, which is an input of the environment.  The clock is    *)
(* read once per call: the reads of datetime.now() inside one validator    *)
(* call are microseconds apart, the model's time unit is a minute.         *)
(***************************************************************************)
EXTENDS Integers, Sequences, FiniteSets, TLC

VARIABLES
    pc,       \* "idle" | "awaiting" | "done": the position of the current call
    op,       \* the operation being called ("none" when idle)
    args,     \* the arguments of the call (a record; depends on op)
    sent,     \* the parameter dictionaries of the HTTP GETs issued by the call
    resp,     \* the server's answer to the GET, once it has arrived
    outcome,  \* "pending" | "returned" | the name of the exception raised
    result,   \* the value returned to the caller
    printed   \* what the call wrote to standard output

vars == <<pc, op, args, sent, resp, outcome, result, printed>>

----------------------------------------------------------------------------
(* Optional values: Python's None and a present value.                      *)

None == [some |-> FALSE]

Some(v) == [some |-> TRUE, val |-> v]

----------------------------------------------------------------------------
(* The calendar: days are counted from 2020-01-01 (day 0).                  *)

MinutesPerHour == 60

MinutesPerDay == 1440

EpochYear == 2020

IsLeap(y) == (y % 4 = 0 /\ y % 100 # 0) \/ y % 400 = 0

DaysInMonth(y, m) ==
    IF m = 2 THEN (IF IsLeap(y) THEN 29 ELSE 28)
    ELSE IF m \in {4, 6, 9, 11} THEN 30 ELSE 31

DaysInYear(y) == IF IsLeap(y) THEN 366 ELSE 365

RECURSIVE DaysBeforeYear(_)
DaysBeforeYear(y) ==
    IF y <= EpochYear THEN 0 ELSE DaysBeforeYear(y - 1) + DaysInYear(y - 1)

RECURSIVE DaysBeforeMonth(_, _)
DaysBeforeMonth(y, m) ==
    IF m <= 1 THEN 0 ELSE DaysBeforeMonth(y, m - 1) + DaysInMonth(y, m - 1)

\* datetime(year, month, day, hour, minute)
datetime(y, m, d, hh, mm) ==
    (DaysBeforeYear(y) + DaysBeforeMonth(y, m) + (d - 1)) * MinutesPerDay
        + hh * MinutesPerHour + mm

\* dt.date(): the calendar day of a datetime
Date(dt) == dt \div MinutesPerDay

\* the year, month and day of month of a day number
YearOf(day) ==
    CHOOSE y \in EpochYear..(EpochYear + 3) :
        DaysBeforeYear(y) <= day /\ day < DaysBeforeYear(y) + DaysInYear(y)

MonthOf(day) ==
    LET y == YearOf(day)
        r == day - DaysBeforeYear(y)
    IN  CHOOSE m \in 1..12 :
            DaysBeforeMonth(y, m) <= r /\ r < DaysBeforeMonth(y, m) + DaysInMonth(y, m)

DayOfMonth(day) ==
    LET y == YearOf(day)
    IN  day - DaysBeforeYear(y) - DaysBeforeMonth(y, MonthOf(day)) + 1

\* timedelta(days=n)
timedelta(days) == days * MinutesPerDay

\* start + relativedelta(months=1), for the first day of a month
PlusOneMonth(y, m) ==
    IF m = 12 THEN datetime(y + 1, 1, 1, 0, 0) ELSE datetime(y, m + 1, 1, 0, 0)

----------------------------------------------------------------------------
(* Oasis._validate_date_range(start, end), with now the reading of         *)
(* datetime.now().  The three consecutive statements assign the local      *)
(* variable error; ErrorAfter... is its value after each of them.          *)

NoError == "None"

ErrorAfterOrderCheck(start, end) ==
    IF start > end THEN "Start must be before end." ELSE NoError

\* a faulty variant of ErrorAfterFutureCheck: a final else branch that resets error to None
ErrorAfterFutureCheck_ElseClears(start, end, now, error) ==
    IF start > now THEN "Start must be before today"
    ELSE IF end > now THEN "End must be before or equal to today"
    ELSE NoError

ErrorAfterFutureCheck(start, end, now, error) ==
    IF start > now THEN "Start must be before today"
    ELSE IF end > now THEN "End must be before or equal to today"
    ELSE error

\* a faulty variant of ErrorAfterSameDateCheck: only an empty range is rejected
ErrorAfterSameDateCheck_OnlyEqual(start, end, error) ==
    IF start = end THEN "Start and end cannot be equal." ELSE error

ErrorAfterSameDateCheck(start, end, error) ==
    IF Date(start) = Date(end) THEN "Start and end cannot be equal." ELSE error

\* The value of error at "if error is not None": BadDateRangeError is raised
\* exactly when it is not NoError.
_validate_date_range(start, end, now) ==
    ErrorAfterSameDateCheck(start, end,
        ErrorAfterFutureCheck(start, end, now,
            ErrorAfterOrderCheck(start, end)))

----------------------------------------------------------------------------
(* Oasis._get_UTC_string(dt): pytz localize (is_dst=False) in              *)
(* America/Los_Angeles, astimezone(UTC), strftime("%Y%m%dT%H:%M-0000").    *)

\* Daylight time in America/Los_Angeles, as wall-clock minutes: from 02:00 on
\* the second Sunday of March to 02:00 (daylight) on the first Sunday of
\* November.  2020: March 8 to November 1; 2021: March 14 to November 7.
DstPeriods ==
    { <<datetime(2020, 3, 8, 2, 0), datetime(2020, 11, 1, 2, 0)>>,
      <<datetime(2021, 3, 14, 2, 0), datetime(2021, 11, 7, 2, 0)>> }

\* localize(dt, is_dst=False): the wall times of the skipped hour (02:00 to
\* 03:00 in March) and of the repeated hour (01:00 to 02:00 in November) are
\* taken as standard time.
IsDaylight(dt) ==
    \E p \in DstPeriods :
        p[1] + MinutesPerHour <= dt /\ dt < p[2] - MinutesPerHour

UtcOffsetHours(dt) == IF IsDaylight(dt) THEN 7 ELSE 8

\* tz_.localize(dt).astimezone(pytz.UTC): the instant, in minutes of UTC
\* since 2020-01-01 00:00 UTC
ToUTC(dt) == dt + UtcOffsetHours(dt) * MinutesPerHour

\* the values of the directives %Y, %m, %d, %H, %M for the instant t
TimeFields(t) ==
    [ Y |-> YearOf(Date(t)), m |-> MonthOf(Date(t)), d |-> DayOfMonth(Date(t)),
      H |-> (t % MinutesPerDay) \div MinutesPerHour, M |-> t % MinutesPerHour ]

DigitChars == <<"0", "1", "2", "3", "4", "5", "6", "7", "8", "9">>

\* n in decimal, zero-padded to width characters (its last width digits)
RECURSIVE Padded(_, _)
Padded(n, width) ==
    IF width = 0 THEN <<>>
    ELSE Append(Padded(n \div 10, width - 1), DigitChars[(n % 10) + 1])

\* strftime("%Y%m%dT%H:%M-0000"): the string, as a sequence of characters
strftime(t) ==
    LET f == TimeFields(t)
    IN  Padded(f.Y, 4) \o Padded(f.m, 2) \o Padded(f.d, 2) \o <<"T">>
            \o Padded(f.H, 2) \o <<":">> \o Padded(f.M, 2)
            \o <<"-", "0", "0", "0", "0">>

_get_UTC_string(dt) == strftime(ToUTC(dt))

----------------------------------------------------------------------------
(* Oasis.request(params): what it does with the answer of                  *)
(* requests.get(base_url, params, timeout=10).  An answer is a timeout, a   *)
(* connection error, or a response [status, headers, content]; headers is   *)
(* a function from the header names present to their values, a value being  *)
(* a sequence of characters.                                                *)

NoValue == [kind |-> "none"]

Raise(exc) == [outcome |-> exc, value |-> NoValue]

Return(v) == [outcome |-> "returned", value |-> v]

EndsWith(s, suffix) ==
    /\ Len(s) >= Len(suffix)
    /\ SubSeq(s, Len(s) - Len(suffix) + 1, Len(s)) = suffix

\* the characters the pattern r"\.xml\.zip;$" matches literally
XmlZipPattern == <<".", "x", "m", "l", ".", "z", "i", "p", ";">>

\* re.search(r"\.xml\.zip;$", headers): $ matches at the end of the string
\* and before a newline that ends the string
ReSearchXmlZip(h) ==
    EndsWith(h, XmlZipPattern) \/ EndsWith(h, XmlZipPattern \o <<"\n">>)

\* resp.raise_for_status(): HTTPError for a 4xx or 5xx status
IsErrorStatus(status) == 400 <= status /\ status < 600

request(answer) ==
    IF answer.kind = "timeout" THEN Raise("Timeout")
    ELSE IF answer.kind = "connection_error" THEN Raise("ConnectionError")
    ELSE IF IsErrorStatus(answer.status) THEN Raise("HTTPError")
    ELSE IF "content-disposition" \notin DOMAIN answer.headers THEN Raise("KeyError")
    ELSE IF ReSearchXmlZip(answer.headers["content-disposition"])
         THEN Raise("NoDataAvailableError")
    ELSE Return(answer)

----------------------------------------------------------------------------
(* Oasis.get_df(response, parse_dates, sort_values).  The content of a      *)
(* response is either not a zip archive or an archive with a sequence of    *)
(* members; a member is a CSV [columns, rows]: the header's column names    *)
(* and one number per data row, the cell of row r in column c holding       *)
(* <<c, r>>.  A DataFrame is [columns, rows]: a column is [name, origin,    *)
(* isdate], origin the CSV column its cells come from ("NaN": no cells).    *)

COLUMNS ==
    << "INTERVALSTARTTIME_GMT", "INTERVALENDTIME_GMT", "OPR_DT", "OPR_HR",
       "OPR_INTERVAL", "NODE_ID_XML", "NODE_ID", "NODE", "MARKET_RUN_ID",
       "LMP_TYPE", "XML_DATA_ITEM", "PNODE_RESMRID", "GRP_TYPE", "POS", "MW",
       "GROUP" >>

Range(s) == {s[i] : i \in DOMAIN s}

Names(df) == [i \in DOMAIN df.columns |-> df.columns[i].name]

\* the rows in ascending order (insertion sort)
RECURSIVE Insert(_, _)
Insert(sorted, x) ==
    IF sorted = <<>> THEN <<x>>
    ELSE IF x < Head(sorted) THEN <<x>> \o sorted
    ELSE <<Head(sorted)>> \o Insert(Tail(sorted), x)

RECURSIVE SortRows(_)
SortRows(rows) ==
    IF rows = <<>> THEN <<>>
    ELSE Insert(SortRows(SubSeq(rows, 1, Len(rows) - 1)), rows[Len(rows)])

\* pd.read_csv(csv, parse_dates=parse_dates); parse_dates is the set of
\* 0-based column positions to parse as dates (False: the empty set)
read_csv(csv, parse_dates) ==
    IF csv.columns = <<>> THEN Raise("EmptyDataError")
    ELSE IF \E pos \in parse_dates : pos >= Len(csv.columns) THEN Raise("IndexError")
    ELSE Return([ columns |-> [i \in DOMAIN csv.columns |->
                                  [ name |-> csv.columns[i], origin |-> csv.columns[i],
                                    isdate |-> (i - 1) \in parse_dates ]],
                  rows |-> csv.rows ])

\* df.sort_values(sort_values).reset_index(drop=True)
sort_values(df, by) ==
    IF \E i \in DOMAIN by : by[i] \notin Range(Names(df)) THEN Raise("KeyError")
    ELSE Return([df EXCEPT !.rows = SortRows(df.rows)])

\* a faulty variant of rename: PRC is not renamed
rename_NoOp(df) == df

\* df.rename(columns={"PRC": "MW"})
rename(df) ==
    [ df EXCEPT !.columns = [i \in DOMAIN df.columns |->
        IF df.columns[i].name = "PRC"
        THEN [df.columns[i] EXCEPT !.name = "MW"] ELSE df.columns[i]] ]

\* df.reindex(columns=COLUMNS)
reindex(df) ==
    IF \E i, j \in DOMAIN df.columns : i # j /\ df.columns[i].name = df.columns[j].name
    THEN Raise("ValueError")
    ELSE Return([ df EXCEPT !.columns =
        [i \in DOMAIN COLUMNS |->
            IF \E j \in DOMAIN df.columns : df.columns[j].name = COLUMNS[i]
            THEN df.columns[CHOOSE j \in DOMAIN df.columns : df.columns[j].name = COLUMNS[i]]
            ELSE [name |-> COLUMNS[i], origin |-> "NaN", isdate |-> FALSE]] ])

\* The try / except BadZipFile / else part of get_df: [exc, df, printed], exc
\* the exception in flight when the finally block is entered ("none": none),
\* df the local variable df (None while unassigned).
get_df_try(content, parse_dates, sortby) ==
    IF ~content.zip
    THEN [exc |-> "none", df |-> None, printed |-> <<"Bad zip file">>]
    ELSE IF content.members = <<>>
    THEN [exc |-> "IndexError", df |-> None, printed |-> <<>>]
    ELSE LET read == read_csv(content.members[1], parse_dates)
         IN  IF read.outcome # "returned"
             THEN [exc |-> read.outcome, df |-> None, printed |-> <<>>]
             ELSE IF sortby = <<>>
             THEN [exc |-> "none", df |-> Some(read.value), printed |-> <<>>]
             ELSE LET sorted == sort_values(read.value, sortby)
                  IN  IF sorted.outcome # "returned"
                      THEN [exc |-> sorted.outcome, df |-> Some(read.value), printed |-> <<>>]
                      ELSE [exc |-> "none", df |-> Some(sorted.value), printed |-> <<>>]

\* get_df: the finally block (df = df.rename(...)) and the return statement.
\* An exception raised in the finally block replaces the one in flight.
get_df(response, parse_dates, sortby) ==
    LET t == get_df_try(response.content, parse_dates, sortby)
    IN  IF ~t.df.some THEN Raise("UnboundLocalError") @@ [printed |-> t.printed]
        ELSE IF t.exc # "none" THEN Raise(t.exc) @@ [printed |-> t.printed]
        ELSE reindex(rename(t.df.val)) @@ [printed |-> t.printed]

----------------------------------------------------------------------------
(* The query operations up to their HTTP GET.  Each gives [raised, params]: *)
(* the exception raised before any request ("none": none) and the           *)
(* parameter dictionary handed to Oasis.request.                            *)

NoParams == [queryname |-> "none"]

RaiseBefore(exc) == [raised |-> exc, params |-> NoParams]

Send(params) == [raised |-> "none", params |-> params]

query_mapping ==
    [m \in {"DAM", "RTM", "RTPD"} |->
        IF m = "DAM" THEN "PRC_LMP" ELSE IF m = "RTM" THEN "PRC_INTVL_LMP" ELSE "PRC_RTPD_LMP"]

\* a faulty variant of EffectiveMarket: the market argument is ignored
EffectiveMarket_Ignored(marketArg) == "DAM"

\* the market parameter's default
EffectiveMarket(marketArg) == IF marketArg.some THEN marketArg.val ELSE "DAM"

\* a faulty variant of EffectiveEnd: the default end is start itself
EffectiveEnd_SameAsStart(start, endArg) ==
    IF endArg.some THEN endArg.val ELSE start

\* the end parameter's default: "if end is None: end = start + timedelta(days=1)"
EffectiveEnd(start, endArg) ==
    IF endArg.some THEN endArg.val ELSE start + timedelta(1)

\* Node.get_lmps(start, end=None, market="DAM") up to self.request(params)
Node_get_lmps(node, start, endArg, marketArg, now) ==
    LET end == EffectiveEnd(start, endArg)
        market == EffectiveMarket(marketArg)
    IN  IF _validate_date_range(start, end, now) # NoError
        THEN RaiseBefore("BadDateRangeError")
        ELSE IF market \notin DOMAIN query_mapping
        THEN RaiseBefore("ValueError")
        ELSE Send([ queryname |-> query_mapping[market],
                    market_run_id |-> market,
                    startdatetime |-> _get_UTC_string(start),
                    enddatetime |-> _get_UTC_string(end),
                    version |-> 1, node |-> node, resultformat |-> 6 ])

\* Node.get_month_lmps(year, month) up to self.request(params)
Node_get_month_lmps(node, year, month, now) ==
    IF month \notin 1..12 THEN RaiseBefore("ValueError")
    ELSE Node_get_lmps(node, datetime(year, month, 1, 0, 0),
                       Some(PlusOneMonth(year, month)), None, now)

\* a faulty variant of Atlas_get_pnodes: the call of the validator is left out
Atlas_get_pnodes_Unvalidated(start, end, now) ==
    Send([ queryname |-> "ATL_PNODE",
           startdatetime |-> _get_UTC_string(start),
           enddatetime |-> _get_UTC_string(end),
           Pnode_type |-> "ALL", version |-> 1, resultformat |-> 6 ])

\* Atlas.get_pnodes(start, end) up to self.request(params)
Atlas_get_pnodes(start, end, now) ==
    IF _validate_date_range(start, end, now) # NoError
    THEN RaiseBefore("BadDateRangeError")
    ELSE Send([ queryname |-> "ATL_PNODE",
                startdatetime |-> _get_UTC_string(start),
                enddatetime |-> _get_UTC_string(end),
                Pnode_type |-> "ALL", version |-> 1, resultformat |-> 6 ])

\* SystemDemand.get_peak_demand_forecast(start, end) up to self.request(params)
SystemDemand_get_peak_demand_forecast(start, end) ==
    Send([ queryname |-> "SLD_FCST_PEAK",
           startdatetime |-> _get_UTC_string(start),
           enddatetime |-> _get_UTC_string(end),
           version |-> 1, resultformat |-> 6 ])

\* SystemDemand.get_demand_forecast(start, end) up to self.request(params)
SystemDemand_get_demand_forecast(start, end) ==
    Send([ queryname |-> "SLD_FCST",
           startdatetime |-> _get_UTC_string(start),
           enddatetime |-> _get_UTC_string(end),
           version |-> 1, resultformat |-> 6 ])

\* The names pycaiso/oasis.py binds at module level: what
\* "from pycaiso.oasis import <name>" can import.
ModuleNames ==
    { "io", "re", "zipfile", "datetime", "timedelta", "List", "Dict", "Union",
      "Optional", "Any", "pd", "pytz", "requests", "relativedelta", "Response",
      "NoDataAvailableError", "BadDateRangeError", "Oasis", "Node", "Atlas",
      "SystemDemand" }

\* What each operation passes to get_df after a successful request:
\* parse_dates (a set of positions) and sort_values (a sequence of names).
ParseDatesOf(operation) ==
    IF operation \in {"Node.get_lmps", "Node.get_month_lmps"} THEN {2} ELSE {}

SortValuesOf(operation) ==
    IF operation \in {"Node.get_lmps", "Node.get_month_lmps"}
    THEN <<"OPR_DT", "OPR_HR">> ELSE <<>>

----------------------------------------------------------------------------
(* The inputs the operations are called with.                               *)

MaxDay == 2

MaxCols == 3

MaxRows == 2

\* times of day, in minutes after midnight: 00:00 and 12:00
TimeOfDayChoices == {0, 720}

\* the datetimes passed as start and end: 2020-01-01 and the MaxDay days after
Times == {d * MinutesPerDay + t : d \in 0..MaxDay, t \in TimeOfDayChoices}

\* the readings of the clock
NowChoices == Times \cup {datetime(2020, 3, 1, 12, 0), datetime(2021, 1, 1, 0, 0)}

EndArgChoices == {None} \cup {Some(t) : t \in Times}

MarketArgChoices == {None} \cup {Some(m) : m \in {"DAM", "RTM", "RTPD", "HASP"}}

NodeChoices == {"TH_SP15_GEN-APND"}

YearChoices == {2020}

MonthChoices == 0..13

\* content-disposition values: a zip of a CSV report, a zip of an XML error
\* report, and near misses of the pattern
HeaderValueChoices ==
    { <<"a", ".", "z", "i", "p", ";">>,
      <<"a">> \o XmlZipPattern,
      <<"a", ".", "x", "m", "l", ".", "z", "i", "p">>,
      <<"a">> \o XmlZipPattern \o <<" ", "b">>,
      <<"a", "x", "m", "l", ".", "z", "i", "p", ";">> }

NoHeaders == [n \in {} |-> <<>>]

HeadersChoices ==
    {NoHeaders} \cup {[n \in {"content-disposition"} |-> h] : h \in HeaderValueChoices}

ColumnNameChoices == {"OPR_DT", "OPR_HR", "PRC", "MW", "FOO"}

\* sequences of distinct column names
ColumnsChoices ==
    UNION { {c \in [1..n -> ColumnNameChoices] :
                \A i, j \in 1..n : i # j => c[i] # c[j]} : n \in 0..MaxCols }

RowsChoices == UNION { [1..n -> {0, 1}] : n \in 0..MaxRows }

NotZip == [zip |-> FALSE]

Zip(members) == [zip |-> TRUE, members |-> members]

\* the archives handed to get_df directly
ContentChoices ==
    {NotZip, Zip(<<>>)}
        \cup {Zip(<<[columns |-> c, rows |-> r]>>) : c \in ColumnsChoices, r \in RowsChoices}

\* the archives the server answers a query with: an LMP report, a report
\* without the LMP columns, an empty archive, and a body that is no archive
LmpReport ==
    Zip(<<[ columns |-> <<"INTERVALSTARTTIME_GMT", "INTERVALENDTIME_GMT",
                           "OPR_DT", "OPR_HR", "PRC">>,
            rows |-> <<1, 0>> ]>>)

ServerContentChoices ==
    {NotZip, Zip(<<>>), LmpReport, Zip(<<[columns |-> <<"OPR_DT", "FOO">>, rows |-> <<0>>]>>)}

\* the headers of a report's archive
ZipHeaders == [n \in {"content-disposition"} |-> <<"a", ".", "z", "i", "p", ";">>]

Response(status, headers, content) ==
    [kind |-> "response", status |-> status, headers |-> headers, content |-> content]

\* the answers to a GET: no answer in time, no connection, an error status
\* (with or without the no-data header), a success status with each of the
\* headers, a success status with each of the archives
AnswerChoices ==
    {[kind |-> "timeout"], [kind |-> "connection_error"]}
        \cup {Response(st, h, NotZip) :
                st \in {404, 503},
                h \in {NoHeaders, [n \in {"content-disposition"} |-> <<"a">> \o XmlZipPattern]}}
        \cup {Response(200, h, LmpReport) : h \in HeadersChoices}
        \cup {Response(200, ZipHeaders, c) : c \in ServerContentChoices}

ParseDatesChoices == {{}, {2}}

SortValuesChoices == {<<>>, <<"OPR_DT", "OPR_HR">>}

----------------------------------------------------------------------------
(* The state machine: one call at a time, from idle to done.                *)

Init ==
    /\ pc = "idle"
    /\ op = "none"
    /\ args = [none |-> TRUE]
    /\ sent = <<>>
    /\ resp = NoValue
    /\ outcome = "pending"
    /\ result = NoValue
    /\ printed = <<>>

\* a faulty variant of IssueGet: the GET is issued a second time
IssueGet_Retry(issued, params) == issued \o <<params, params>>

\* requests.get(self.base_url, params=params, timeout=10): one GET is issued
\* by the library (redirects followed inside requests are not counted)
IssueGet(issued, params) == Append(issued, params)

\* A query operation is called: it raises before any request, or issues its
\* GET and waits for the answer.
Begin(operation, a, call) ==
    /\ op' = operation
    /\ args' = a
    /\ IF call.raised # "none"
       THEN /\ pc' = "done"
            /\ outcome' = call.raised
            /\ sent' = sent
       ELSE /\ pc' = "awaiting"
            /\ outcome' = "pending"
            /\ sent' = IssueGet(sent, call.params)
    /\ UNCHANGED <<resp, result, printed>>

\* Oasis._validate_date_range(start, end) called directly
CallValidateDateRange ==
    \E start \in Times, end \in Times, now \in NowChoices :
        /\ pc = "idle"
        /\ pc' = "done"
        /\ op' = "Oasis._validate_date_range"
        /\ args' = [start |-> start, end |-> end, now |-> now]
        /\ outcome' = IF _validate_date_range(start, end, now) # NoError
                      THEN "BadDateRangeError" ELSE "returned"
        /\ UNCHANGED <<sent, resp, result, printed>>

\* Oasis.request(params) called directly
CallRequest ==
    \E q \in {"PRC_LMP", "SLD_FCST"} :
        /\ pc = "idle"
        /\ Begin("Oasis.request", [params |-> [queryname |-> q]], Send([queryname |-> q]))

\* Oasis.get_df(response, parse_dates, sort_values) called directly
CallGetDf ==
    \E c \in ContentChoices, pd \in ParseDatesChoices, sv \in SortValuesChoices :
        LET response == Response(200, NoHeaders, c)
            r == get_df(response, pd, sv)
        IN  /\ pc = "idle"
            /\ pc' = "done"
            /\ op' = "Oasis.get_df"
            /\ args' = [response |-> response, parse_dates |-> pd, sort_values |-> sv]
            /\ outcome' = r.outcome
            /\ result' = r.value
            /\ printed' = r.printed
            /\ UNCHANGED <<sent, resp>>

CallNodeGetLmps ==
    \E node \in NodeChoices, start \in Times, endArg \in EndArgChoices,
       marketArg \in MarketArgChoices, now \in NowChoices :
        /\ pc = "idle"
        /\ Begin("Node.get_lmps",
              [node |-> node, start |-> start, end |-> endArg, market |-> marketArg, now |-> now],
              Node_get_lmps(node, start, endArg, marketArg, now))

CallNodeGetMonthLmps ==
    \E node \in NodeChoices, year \in YearChoices, month \in MonthChoices, now \in NowChoices :
        /\ pc = "idle"
        /\ Begin("Node.get_month_lmps",
              [node |-> node, year |-> year, month |-> month, now |-> now],
              Node_get_month_lmps(node, year, month, now))

CallAtlasGetPnodes ==
    \E start \in Times, end \in Times, now \in NowChoices :
        /\ pc = "idle"
        /\ Begin("Atlas.get_pnodes", [start |-> start, end |-> end, now |-> now],
              Atlas_get_pnodes(start, end, now))

CallGetPeakDemandForecast ==
    \E start \in Times, end \in Times :
        /\ pc = "idle"
        /\ Begin("SystemDemand.get_peak_demand_forecast",
              [start |-> start, end |-> end],
              SystemDemand_get_peak_demand_forecast(start, end))

CallGetDemandForecast ==
    \E start \in Times, end \in Times :
        /\ pc = "idle"
        /\ Begin("SystemDemand.get_demand_forecast",
              [start |-> start, end |-> end],
              SystemDemand_get_demand_forecast(start, end))

\* "from pycaiso.oasis import get_lmps" (tests/test_oasis.py) and the call
\* get_lmps(node, start, end): the module binds no such name.
CallFreeGetLmps ==
    \E node \in NodeChoices, start \in Times, end \in Times, now \in NowChoices :
        /\ pc = "idle"
        /\ "get_lmps" \notin ModuleNames
        /\ Begin("get_lmps", [node |-> node, start |-> start, end |-> Some(end),
                              market |-> None, now |-> now],
                 RaiseBefore("ImportError"))

\* The answer to the GET arrives: the rest of Oasis.request, and of the
\* operation that called it (get_df on the response it returned).
HttpAnswer ==
    \E answer \in AnswerChoices :
        LET r == request(answer)
            d == IF r.outcome = "returned" /\ op # "Oasis.request"
                 THEN get_df(r.value, ParseDatesOf(op), SortValuesOf(op))
                 ELSE r @@ [printed |-> <<>>]
        IN  /\ pc = "awaiting"
            /\ pc' = "done"
            /\ resp' = answer
            /\ outcome' = d.outcome
            /\ result' = d.value
            /\ printed' = d.printed
            /\ UNCHANGED <<op, args, sent>>

\* The caller has the outcome; the next call starts afresh.
Finish ==
    /\ pc = "done"
    /\ pc' = "idle"
    /\ op' = "none"
    /\ args' = [none |-> TRUE]
    /\ sent' = <<>>
    /\ resp' = NoValue
    /\ outcome' = "pending"
    /\ result' = NoValue
    /\ printed' = <<>>

Next ==
    \/ CallValidateDateRange
    \/ CallRequest
    \/ CallGetDf
    \/ CallNodeGetLmps
    \/ CallNodeGetMonthLmps
    \/ CallAtlasGetPnodes
    \/ CallGetPeakDemandForecast
    \/ CallGetDemandForecast
    \/ CallFreeGetLmps
    \/ HttpAnswer
    \/ Finish

Spec == Init /\ [][Next]_vars

----------------------------------------------------------------------------
(* The range operations called with datetimes around the two daylight-      *)
(* saving transitions of 2020 (March 8 and November 1), the clock read      *)
(* on the March transition day or after the year's end.                     *)

DaysAround == 1

\* the days of the transitions, as day numbers
TransitionDays == {Date(datetime(2020, 3, 8, 0, 0)), Date(datetime(2020, 11, 1, 0, 0))}

\* times of day, in minutes after midnight: 00:00, 01:00, 01:30, 02:00,
\* 02:30, 03:00 and 23:30
TransitionTimeOfDayChoices == {0, 60, 90, 120, 150, 180, 1410}

TransitionTimes ==
    { (day + k) * MinutesPerDay + t :
        day \in TransitionDays, k \in (0 - DaysAround)..DaysAround,
        t \in TransitionTimeOfDayChoices }

TransitionNowChoices == {datetime(2020, 3, 8, 12, 0), datetime(2021, 1, 1, 0, 0)}

CallNodeGetLmpsNearTransition ==
    \E node \in NodeChoices, start \in TransitionTimes,
       endArg \in {None} \cup {Some(t) : t \in TransitionTimes},
       now \in TransitionNowChoices :
        /\ pc = "idle"
        /\ Begin("Node.get_lmps",
                 [node |-> node, start |-> start, end |-> endArg, market |-> None, now |-> now],
                 Node_get_lmps(node, start, endArg, None, now))

CallAtlasGetPnodesNearTransition ==
    \E start \in TransitionTimes, end \in TransitionTimes, now \in TransitionNowChoices :
        /\ pc = "idle"
        /\ Begin("Atlas.get_pnodes", [start |-> start, end |-> end, now |-> now],
                 Atlas_get_pnodes(start, end, now))

\* The answer to the GET arrives (as HttpAnswer), the server answering with
\* a report, with no data, or not in time.
HttpAnswerNearTransition ==
    \E answer \in { [kind |-> "timeout"], Response(200, ZipHeaders, LmpReport),
                    Response(200, [n \in {"content-disposition"} |-> <<"a">> \o XmlZipPattern],
                             NotZip) } :
        LET r == request(answer)
            d == IF r.outcome = "returned"
                 THEN get_df(r.value, ParseDatesOf(op), SortValuesOf(op))
                 ELSE r @@ [printed |-> <<>>]
        IN  /\ pc = "awaiting"
            /\ pc' = "done"
            /\ resp' = answer
            /\ outcome' = d.outcome
            /\ result' = d.value
            /\ printed' = d.printed
            /\ UNCHANGED <<op, args, sent>>

NextNearTransition ==
    \/ CallNodeGetLmpsNearTransition
    \/ CallAtlasGetPnodesNearTransition
    \/ HttpAnswerNearTransition
    \/ Finish

SpecNearTransition == Init /\ [][NextNearTransition]_vars

----------------------------------------------------------------------------
(* Properties.                                                              *)

ValidateCalled == pc = "done" /\ op = "Oasis._validate_date_range"

\* C1: Oasis._validate_date_range(start, end) raises BadDateRangeError
\* whenever start > end, or start > now, or end > now, or start and end fall
\* on the same calendar date, in every combination of the four conditions.
C1_RejectsEveryBadRange ==
    ValidateCalled =>
        ( ( \/ args.start > args.end
            \/ args.start > args.now
            \/ args.end > args.now
            \/ Date(args.start) = Date(args.end) )
          => outcome = "BadDateRangeError" )

\* C1 witness: an inverted range of past dates on different days, so that
\* only the first check sets the error and both later checks leave it.
C1_Witness ==
    /\ ValidateCalled
    /\ args.start > args.end
    /\ args.start <= args.now
    /\ Date(args.start) # Date(args.end)
    /\ outcome = "BadDateRangeError"

\* The range an operation's call hands (or would hand) to the validator is
\* rejected.  The SystemDemand operations read no clock: for them the range
\* is one rejected at every reading of the clock.
RejectedRange ==
    IF op = "Node.get_lmps"
    THEN _validate_date_range(args.start, EffectiveEnd(args.start, args.end), args.now) # NoError
    ELSE IF op = "Atlas.get_pnodes"
    THEN _validate_date_range(args.start, args.end, args.now) # NoError
    ELSE \A now \in NowChoices : _validate_date_range(args.start, args.end, now) # NoError

EndedWithBadDateRange ==
    pc = "done" /\ outcome = "BadDateRangeError" /\ sent = <<>>

\* C2 as stated: each of Node.get_lmps, Atlas.get_pnodes,
\* SystemDemand.get_peak_demand_forecast and SystemDemand.get_demand_forecast,
\* called with a range the validator rejects, ends with BadDateRangeError and
\* issues no HTTP GET.
C2_EveryQueryValidates ==
    ( /\ pc # "idle"
      /\ op \in { "Node.get_lmps", "Atlas.get_pnodes",
                  "SystemDemand.get_peak_demand_forecast",
                  "SystemDemand.get_demand_forecast" }
      /\ RejectedRange )
    => EndedWithBadDateRange

\* C2 amended: Node.get_lmps and Atlas.get_pnodes, called with a range the
\* validator rejects, end with BadDateRangeError and issue no HTTP GET.
C2_NodeAndAtlasValidate ==
    ( /\ pc # "idle"
      /\ op \in {"Node.get_lmps", "Atlas.get_pnodes"}
      /\ RejectedRange )
    => EndedWithBadDateRange

\* C2 witness: get_pnodes called with an inverted range has raised.
C2_Witness ==
    /\ op = "Atlas.get_pnodes"
    /\ args.start > args.end
    /\ EndedWithBadDateRange

HeaderEndsWithXmlZip(response) ==
    /\ "content-disposition" \in DOMAIN response.headers
    /\ EndsWith(response.headers["content-disposition"], XmlZipPattern)

\* C3 as stated: after a successful status Oasis.request raises
\* NoDataAvailableError exactly when the content-disposition header ends with
\* ".xml.zip;" and otherwise returns the response unchanged; an error status
\* raises and the response is not returned.
C3_RequestTellsNoDataFromPayload ==
    (pc = "done" /\ op = "Oasis.request" /\ resp.kind = "response") =>
        IF IsErrorStatus(resp.status)
        THEN outcome = "HTTPError"
        ELSE IF HeaderEndsWithXmlZip(resp)
        THEN outcome = "NoDataAvailableError"
        ELSE outcome = "returned" /\ result = resp

QueryOperations ==
    { "Node.get_lmps", "Node.get_month_lmps", "Atlas.get_pnodes",
      "SystemDemand.get_peak_demand_forecast", "SystemDemand.get_demand_forecast" }

\* C4: every public query operation issues at most one HTTP GET per call:
\* once the GET is answered (success, HTTP error, timeout, no data) the call
\* has ended, returned or raised, with that one GET.
C4_AtMostOneGetPerCall ==
    op \in QueryOperations =>
        /\ Len(sent) <= 1
        /\ pc = "awaiting" => Len(sent) = 1
        /\ resp # NoValue => (pc = "done" /\ outcome # "pending" /\ Len(sent) = 1)

\* C4 witness: a month query whose GET timed out has ended with one GET.
C4_Witness ==
    /\ pc = "done"
    /\ op = "Node.get_month_lmps"
    /\ resp = [kind |-> "timeout"]
    /\ outcome = "Timeout"
    /\ Len(sent) = 1

GetDfCalled == pc = "done" /\ op = "Oasis.get_df"

\* the CSV that get_df reads: the first member of the archive
FirstCsv == args.response.content.members[1]

\* get_df was handed a valid archive whose first member is a CSV with a
\* header of distinct column names, not both PRC and MW among them
ValidArchive ==
    /\ args.response.content.zip
    /\ args.response.content.members # <<>>
    /\ FirstCsv.columns # <<>>
    /\ ~({"PRC", "MW"} \subseteq Range(FirstCsv.columns))

\* the CSV column whose cells the result's column named c holds
ExpectedOrigin(c) ==
    IF c \in Range(FirstCsv.columns) THEN c
    ELSE IF c = "MW" /\ "PRC" \in Range(FirstCsv.columns) THEN "PRC"
    ELSE "NaN"

FixedSchema ==
    /\ outcome = "returned"
    /\ Names(result) = COLUMNS
    /\ \A i \in DOMAIN COLUMNS : result.columns[i].origin = ExpectedOrigin(COLUMNS[i])
    /\ Len(result.rows) = Len(FirstCsv.rows)

\* C5 as stated: for every valid archive whose first member is a CSV with any
\* set of distinct column names (not both PRC and MW), get_df returns a table
\* whose columns are exactly COLUMNS in order, PRC appearing as MW, other CSV
\* columns dropped, absent schema columns empty, with as many rows as the CSV.
C5_FixedSchemaForEveryArchive ==
    (GetDfCalled /\ ValidArchive) => FixedSchema

\* the CSV holds every column get_df is asked to sort by, and has a column
\* at every position get_df is asked to parse as a date
SortAndDateColumnsPresent ==
    /\ Range(args.sort_values) \subseteq Range(FirstCsv.columns)
    /\ \A pos \in args.parse_dates : pos < Len(FirstCsv.columns)

\* C5 amended: the same, for the calls whose CSV has every column named in
\* sort_values and a column at every parse_dates position.
C5_FixedSchemaWhenSortColumnsPresent ==
    (GetDfCalled /\ ValidArchive /\ SortAndDateColumnsPresent) => FixedSchema

\* C5 witness: a CSV with PRC, a column outside the schema and two rows out
\* of order, sorted by its OPR_DT and OPR_HR columns, came back in the schema.
C5_Witness ==
    /\ GetDfCalled
    /\ ValidArchive
    /\ SortAndDateColumnsPresent
    /\ args.sort_values # <<>>
    /\ "PRC" \in Range(FirstCsv.columns)
    /\ FirstCsv.rows = <<1, 0>>
    /\ FixedSchema
    /\ result.columns[15].origin = "PRC"
    /\ result.rows = <<0, 1>>

LmpsCalled == pc # "idle" /\ op = "Node.get_lmps"

\* the range of the call is one the validator accepts
AcceptedRange ==
    _validate_date_range(args.start, EffectiveEnd(args.start, args.end), args.now) = NoError

SentOneRequestWith(market, queryname) ==
    /\ Len(sent) = 1
    /\ sent[1].market_run_id = market
    /\ sent[1].queryname = queryname

\* C6: Node.get_lmps (with a valid range) sends market_run_id "DAM" and
\* queryname "PRC_LMP" when market is omitted, "RTM" and "PRC_INTVL_LMP" for
\* "RTM", "RTPD" and "PRC_RTPD_LMP" for "RTPD"; for any other market it raises
\* ValueError and no HTTP GET is issued.
C6_RequestCarriesTheMarket ==
    (LmpsCalled /\ AcceptedRange) =>
        IF ~args.market.some \/ args.market = Some("DAM")
        THEN SentOneRequestWith("DAM", "PRC_LMP")
        ELSE IF args.market = Some("RTM")
        THEN SentOneRequestWith("RTM", "PRC_INTVL_LMP")
        ELSE IF args.market = Some("RTPD")
        THEN SentOneRequestWith("RTPD", "PRC_RTPD_LMP")
        ELSE pc = "done" /\ outcome = "ValueError" /\ sent = <<>>

\* C6 witness: a real-time query has been sent.
C6_Witness ==
    /\ LmpsCalled
    /\ AcceptedRange
    /\ args.market = Some("RTM")
    /\ SentOneRequestWith("RTM", "PRC_INTVL_LMP")

\* C7 as stated: pycaiso.oasis provides get_lmps(node, start, end), whose
\* outcome is that of Node(node).get_lmps(start, end): the same exception
\* before any request, or the same request sent.
C7_FreeFunctionSameAsNode ==
    (pc # "idle" /\ op = "get_lmps") =>
        LET call == Node_get_lmps(args.node, args.start, args.end, args.market, args.now)
        IN  IF call.raised # "none"
            THEN pc = "done" /\ outcome = call.raised /\ sent = <<>>
            ELSE sent = <<call.params>> /\ outcome \notin {"ImportError", "AttributeError"}

\* C8 as stated: for every start strictly before end with end not after now,
\* _validate_date_range returns without raising (also when start and end are
\* different times of the same calendar day).
C8_AcceptsEveryProperPastRange ==
    (ValidateCalled /\ args.start < args.end /\ args.end <= args.now)
        => outcome = "returned"

MarketAccepted == EffectiveMarket(args.market) \in {"DAM", "RTM", "RTPD"}

OnlyStartPassed == LmpsCalled /\ ~args.end.some /\ MarketAccepted

SentStartAndNextDay ==
    /\ outcome # "BadDateRangeError"
    /\ Len(sent) = 1
    /\ sent[1].startdatetime = _get_UTC_string(args.start)
    /\ sent[1].enddatetime = _get_UTC_string(args.start + MinutesPerDay)

\* C9 as stated: for every start <= now, get_lmps(start) with end omitted
\* uses end = start + 1 day, passes validation and sends a request whose
\* startdatetime and enddatetime are the UTC strings of start and start + 1
\* day.
C9_OnlyStartNotInFuture ==
    (OnlyStartPassed /\ args.start <= args.now) => SentStartAndNextDay

\* C9 amended: the same for every start with start + 1 day <= now.
C9_OnlyStartADayBack ==
    (OnlyStartPassed /\ args.start + MinutesPerDay <= args.now) => SentStartAndNextDay

\* C9 witness: get_lmps(start) with start exactly one day before now has
\* sent its request.
C9_Witness ==
    /\ OnlyStartPassed
    /\ args.start + MinutesPerDay = args.now
    /\ SentStartAndNextDay

\* C10 as stated: when the response body is not a valid zip archive, get_df
\* reports "Bad zip file" and ends without an exception reaching the caller.
C10_BadZipFileIsHandled ==
    (GetDfCalled /\ ~args.response.content.zip) =>
        (printed = <<"Bad zip file">> /\ outcome = "returned")

\* the number a sequence of digit characters writes
DigitValue(c) == CHOOSE n \in 0..9 : DigitChars[n + 1] = c

RECURSIVE NumberOf(_)
NumberOf(digits) ==
    IF digits = <<>> THEN 0
    ELSE NumberOf(SubSeq(digits, 1, Len(digits) - 1)) * 10 + DigitValue(digits[Len(digits)])

\* a string of the form YYYYMMDDTHH:MM-0000 that names a minute of a day
HasRequestTimestampForm(str) ==
    /\ Len(str) = 19
    /\ \A i \in {1, 2, 3, 4, 5, 6, 7, 8, 10, 11, 13, 14} : str[i] \in Range(DigitChars)
    /\ str[9] = "T"
    /\ str[12] = ":"
    /\ SubSeq(str, 15, 19) = <<"-", "0", "0", "0", "0">>
    /\ NumberOf(SubSeq(str, 5, 6)) \in 1..12
    /\ NumberOf(SubSeq(str, 7, 8)) \in
           1..DaysInMonth(NumberOf(SubSeq(str, 1, 4)), NumberOf(SubSeq(str, 5, 6)))
    /\ NumberOf(SubSeq(str, 10, 11)) \in 0..23
    /\ NumberOf(SubSeq(str, 13, 14)) \in 0..59

\* the instant a request timestamp names, in minutes of UTC since
\* 2020-01-01 00:00 UTC
InstantOf(str) ==
    datetime(NumberOf(SubSeq(str, 1, 4)), NumberOf(SubSeq(str, 5, 6)),
             NumberOf(SubSeq(str, 7, 8)), NumberOf(SubSeq(str, 10, 11)),
             NumberOf(SubSeq(str, 13, 14)))

\* a range operation that validates its range has sent its request: the
\* validator accepted (start, end)
RangeRequestSent ==
    /\ op \in {"Node.get_lmps", "Atlas.get_pnodes"}
    /\ Len(sent) = 1

\* the end of the range handed to the validator
RangeEnd ==
    IF op = "Node.get_lmps" THEN EffectiveEnd(args.start, args.end) ELSE args.end

\* C11: for every (start, end) accepted by _validate_date_range, the instant
\* written by _get_UTC_string(start) is strictly earlier than the instant
\* written by _get_UTC_string(end), also when the range begins or ends on a
\* daylight-saving transition day, and both strings have the form
\* YYYYMMDDTHH:MM-0000.
C11_RequestTimestampsKeepOrder ==
    RangeRequestSent =>
        /\ HasRequestTimestampForm(sent[1].startdatetime)
        /\ HasRequestTimestampForm(sent[1].enddatetime)
        /\ InstantOf(sent[1].startdatetime) < InstantOf(sent[1].enddatetime)

\* C11 witness: a range from the skipped hour of the March transition day
\* (02:30, taken as standard time) to 00:00 of the next day (daylight time),
\* which is 21 hours 30 minutes of wall time and 20 hours 30 minutes of UTC.
C11_Witness ==
    /\ RangeRequestSent
    /\ args.start = datetime(2020, 3, 8, 2, 30)
    /\ RangeEnd = datetime(2020, 3, 9, 0, 0)
    /\ InstantOf(sent[1].enddatetime) - InstantOf(sent[1].startdatetime)
           = 20 * MinutesPerHour + 30

====
